---- MODULE Spec2Model ----
(***************************************************************************)
(* Model of the document-chat server: the /upload and /chat handlers, the  *)
(* embedding cache with its rate-limit retry (getEmbedding), the batch     *)
(* ingestion loop, the Chunk collection and the cosine ranking.            *)
(*                                                                         *)
(* The repository holds several versions of the server.  Two of them are   *)
(* modelled as two specifications over the same variables:                 *)
(*   SpecCached  - the version with embeddingCache and getEmbedding, which *)
(*                 embeds all chunks of a file through Promise.all and     *)
(*                 stores them with one save per chunk;                    *)
(*   SpecBatched - the version with the batch loop (batchSize = 5), one    *)
(*                 embedDocuments call and one insertMany per batch.       *)
(* An await is a step boundary: everything a handler does between two      *)
(* awaits is one action, as Node runs it on its single thread.             *)
(***************************************************************************)
EXTENDS Integers, Sequences, FiniteSets, TLC

VARIABLES
    embeddingCache,   \* the plain object `embeddingCache`: own properties only
    store,            \* the Chunk collection, in insertion order
    req,              \* one record per HTTP request: the handler's locals and position
    call,             \* per request, the getEmbedding invocations it started
    providerCalls,    \* per text, how many times embeddings.embedDocuments was asked for it
    rateLeft,         \* how many more 429 answers the provider may give in this run
    exposeGc          \* whether node was started with --expose-gc (global.gc exists)

vars == <<embeddingCache, store, req, call, providerCalls, rateLeft, exposeGc>>

-----------------------------------------------------------------------------
(* Bounds and program constants *)

MaxRateLimited == 5      \* 429 answers of the provider in one run (SpecCached, SpecBatched)
FanoutRateLimited == 1   \* the same, in the run with a six-chunk file (SpecFanout)

MaxAttempts == 5         \* `attempt < 5`
TopK == 5                \* `.slice(0, 5)`
batchSize == 5           \* `const batchSize = 5`

Reqs == {1, 2}

\* JavaScript values the cache lookup can yield besides a vector (a pair of
\* numbers): undefined, and the function Object.prototype holds under a name.
Undefined == <<>>
ProtoMember == <<"function Object">>
BuiltinNames == {"constructor"}
Texts == {"a", "b", "constructor"}

\* The vectors the provider may answer for a text.
ProviderVecs(t) ==
    CASE t = "a" -> {<<1, 0>>, <<2, 1>>}
      [] t = "b" -> {<<0, 1>>}
      [] OTHER   -> {<<1, 1>>}

AllVecs == UNION {ProviderVecs(t) : t \in Texts}

Min(a, b) == IF a < b THEN a ELSE b

RECURSIVE Pow2(_)
Pow2(n) == IF n = 0 THEN 1 ELSE 2 * Pow2(n - 1)

\* The bits of a mantissa.
MantissaBits == 7

RECURSIVE SumSeq(_)
SumSeq(s) == IF s = <<>> THEN 0 ELSE Head(s) + SumSeq(Tail(s))

-----------------------------------------------------------------------------
(* Request inputs.  A file carries the chunks its extracted text splits into. *)

File(name, ext, chunks) == [name |-> name, ext |-> ext, chunks |-> chunks]

FileAA  == File("aa.docx", "docx", <<"a", "a">>)
FileAB  == File("ab.pdf", "pdf", <<"a", "b">>)
FileB   == File("b.pdf", "pdf", <<"b">>)
FileTxt == File("n.txt", "other", <<"b">>)
FileC   == File("c.docx", "docx", <<"constructor">>)
FileSix == File("six.pdf", "pdf", <<"a", "b", "a", "b", "a", "b">>)
FileEleven == File("eleven.docx", "docx",
                   <<"a", "b", "a", "b", "a", "b", "a", "b", "a", "b", "a">>)

Supported == {"docx", "pdf"}

UploadInput(files) == [kind |-> "upload", files |-> files, question |-> ""]
ChatInput(q) == [kind |-> "chat", files |-> <<>>, question |-> q]

\* What request 1 and request 2 of a run may be.
CachedInputs(r) ==
    IF r = 1
    THEN { UploadInput(<<>>), UploadInput(<<FileAA>>), UploadInput(<<FileTxt, FileAB>>) }
    ELSE { UploadInput(<<FileB>>), UploadInput(<<FileC>>),
           ChatInput("a"), ChatInput("constructor") }

\* A run with a file of more chunks than a batch holds.
FanoutInputs(r) ==
    IF r = 1 THEN { UploadInput(<<FileSix>>) } ELSE { ChatInput("a"), UploadInput(<<>>) }

-----------------------------------------------------------------------------
(* The embedding cache: a plain object read with embeddingCache[text]. *)

\* Variant: the lookup never finds a stored vector.
CacheLookupMiss(cache, text) ==
    IF text \in BuiltinNames THEN ProtoMember ELSE Undefined

\* embeddingCache[text]: an own property, else what Object.prototype holds
\* under that name, else undefined.
CacheLookup(cache, text) ==
    IF cache[text] # Undefined THEN cache[text]
    ELSE IF text \in BuiltinNames THEN ProtoMember
    ELSE Undefined

\* `if (embeddingCache[text])`: vectors are arrays and functions are objects,
\* both truthy; undefined is falsy.
Truthy(v) == v # Undefined

IsVector(v) == v \in AllVecs

-----------------------------------------------------------------------------
(* getEmbedding(text, attempt) *)

\* A getEmbedding invocation: where it stands, what it returned or threw, the
\* waits it slept (seconds), the provider calls it made and the statuses the
\* provider answered them with.
Invocation(pc, text, attempt, result, err, waits, made, answers) ==
    [pc |-> pc, text |-> text, attempt |-> attempt, result |-> result, err |-> err,
     waits |-> waits, made |-> made, answers |-> answers]

\* The synchronous head of getEmbedding: the cache check, then the provider call.
Enter(cache, text, attempt, waits, made, answers) ==
    IF Truthy(CacheLookup(cache, text))
    THEN Invocation("returned", text, attempt, CacheLookup(cache, text), 0,
                    waits, made, answers)
    ELSE Invocation("await", text, attempt, Undefined, 0, waits, made + 1, answers)

\* Variant: the result is returned without being cached.
CacheStoreSkip(cache, text, v) == cache
\* Variant: the vector is written under a fixed key instead of its text.
CacheStoreFixedKey(cache, text, v) == [cache EXCEPT !["a"] = v]

\* `embeddingCache[text] = embedding[0]`
CacheStore(cache, text, v) == [cache EXCEPT ![text] = v]

\* The provider answered with the vectors: cache, then return.
OnEmbedded(c, v) == [c EXCEPT !.pc = "returned", !.result = v]

\* Variant: one attempt too many (`attempt <= 5`).
ShouldRetryInclusive(status, attempt) == status = 429 /\ attempt <= MaxAttempts

\* `error.response.status === 429 && attempt < 5`
ShouldRetry(status, attempt) == status = 429 /\ attempt < MaxAttempts

\* Variant: a fixed wait of five seconds before every retry.
waitTimeFixed(attempt) == 5

\* `Math.pow(2, attempt) * 1000` milliseconds, kept in seconds.
waitTime(attempt) == Pow2(attempt)

\* Variant: every provider error is retried, not only a 429.
OnProviderErrorRetryAll(c, status) ==
    IF c.attempt < MaxAttempts
    THEN [c EXCEPT !.pc = "wait", !.waits = Append(@, waitTime(c.attempt))]
    ELSE [c EXCEPT !.pc = "threw", !.err = status]

\* The catch block: sleep and retry, or rethrow the provider's error.
OnProviderError(c, status) ==
    IF ShouldRetry(status, c.attempt)
    THEN [c EXCEPT !.pc = "wait", !.waits = Append(@, waitTime(c.attempt))]
    ELSE [c EXCEPT !.pc = "threw", !.err = status]

\* The timer fired: `return getEmbedding(text, attempt + 1)`.
OnTimer(cache, c) == Enter(cache, c.text, c.attempt + 1, c.waits, c.made, c.answers)

\* providerCalls after the invocations idxs of cs were entered: one more for
\* each of them that went to the provider.
Issued(pc0, cs, idxs) ==
    [t \in Texts |->
        pc0[t] + Cardinality({i \in idxs : cs[i].text = t /\ cs[i].pc = "await"})]

-----------------------------------------------------------------------------
(* Requests *)

\* An HTTP response: the status, the text or error message sent, and for the
\* success answer of /upload the `files` array.
Response(status, text, files) == [status |-> status, text |-> text, files |-> files]

NewRequest(input) ==
    [kind |-> input.kind, pc |-> "new", files |-> input.files,
     question |-> input.question,
     fi |-> 0,                  \* index of the file being processed
     chunks |-> <<>>,           \* `chunks` of that file
     i |-> 0,                   \* loop index of the save loop / batch loop
     batch |-> <<>>,            \* `batchChunks` of the batch loop
     embeddingsArray |-> <<>>,
     chunksArray |-> <<>>,
     tmp |-> {},                \* uploaded temporary files not yet unlinked
     queryVector |-> Undefined,
     similarChunks |-> <<>>,
     context |-> <<>>,
     resp |-> Response(0, "", <<>>),
     sends |-> 0,               \* how many times the handler tried to send a response
     cause |-> "none"]          \* what made the handler reach its catch block

Reply(rq, status, text, files) ==
    [rq EXCEPT !.pc = "done", !.resp = Response(status, text, files), !.sends = @ + 1]

\* The catch block of /upload.
UploadCatch(rq, cause) ==
    [Reply(rq, 500, "Failed to process the files", <<>>) EXCEPT !.cause = cause]

\* The catch block of /chat.
ChatCatch(rq, cause) ==
    [Reply(rq, 500, "Failed to process the chat request", <<>>) EXCEPT !.cause = cause]

\* The kind of failure a rejected getEmbedding carries.
CauseOf(err) == IF err = 429 THEN "rate" ELSE "provider"

\* A stored document of the Chunk model; id tells which request, file and
\* chunk position it was made for (the _id Mongo assigns).
ChunkDoc(fileName, chunk, embedding, id) ==
    [fileName |-> fileName, chunk |-> chunk, embedding |-> embedding, id |-> id]

-----------------------------------------------------------------------------
(* /upload of the cached version *)
\* Variant: no format is skipped.
NextSupportedAll(files, k) == k

\* `for (const file of req.files)` from position k on: unsupported formats are
\* skipped with `continue`; after the last file the success response is sent.
RECURSIVE NextSupported(_, _)
NextSupported(files, k) ==
    IF k > Len(files) THEN k
    ELSE IF files[k].ext \in Supported THEN k
    ELSE NextSupported(files, k + 1)

CachedLoop(rq, k) ==
    LET j == NextSupported(rq.files, k)
    IN  IF j > Len(rq.files)
        THEN Reply(rq, 200, "", rq.chunksArray)
        ELSE [rq EXCEPT !.fi = j, !.pc = "extract"]

\* `chunksArray.push({ fileName, chunks })`, then the next file.
CachedPush(rq) ==
    CachedLoop([rq EXCEPT !.chunksArray =
                   Append(@, [fileName |-> rq.files[rq.fi].name, chunks |-> rq.chunks])],
               rq.fi + 1)

\* The save loop at index rq.i: past the last chunk the file is done,
\* otherwise a save is awaited.
CachedSaveLoop(rq) ==
    IF rq.i > Len(rq.chunks) THEN CachedPush(rq) ELSE [rq EXCEPT !.pc = "save"]

\* What Promise.all makes of the invocations cs of an upload: it rejects with
\* the first rejection, resolves when all have returned.
UploadAfterCalls(rq, cs) ==
    IF rq.kind = "upload" /\ rq.pc = "all"
    THEN IF \E i \in 1..Len(cs) : cs[i].pc = "threw"
         THEN LET i == CHOOSE i \in 1..Len(cs) : cs[i].pc = "threw"
              IN  UploadCatch(rq, CauseOf(cs[i].err))
         ELSE IF \A i \in 1..Len(cs) : cs[i].pc = "returned"
         THEN CachedSaveLoop([rq EXCEPT
                  !.embeddingsArray = [i \in 1..Len(cs) |-> cs[i].result],
                  !.i = 1])
         ELSE rq
    ELSE rq

\* `await getEmbedding(userInput)` of /chat, then the find is issued.
ChatAfterCalls(rq, cs) ==
    IF rq.kind = "chat" /\ rq.pc = "embed"
    THEN IF cs[1].pc = "threw" THEN ChatCatch(rq, CauseOf(cs[1].err))
         ELSE IF cs[1].pc = "returned"
         THEN [rq EXCEPT !.queryVector = cs[1].result, !.pc = "find"]
         ELSE rq
    ELSE rq

\* The handler that awaits the invocations cs continues, if they let it.
AfterCalls(rq, cs) ==
    IF rq.kind = "upload" THEN UploadAfterCalls(rq, cs) ELSE ChatAfterCalls(rq, cs)

\* The request arrives: no file gives 400, else the file loop starts.
CachedUploadBegin(r) ==
    /\ req[r].kind = "upload" /\ req[r].pc = "new"
    /\ req' = [req EXCEPT ![r] =
                 IF Len(req[r].files) = 0
                 THEN Reply(req[r], 400, "No files were uploaded.", <<>>)
                 ELSE CachedLoop([req[r] EXCEPT !.tmp = 1..Len(req[r].files)], 1)]
    /\ UNCHANGED <<exposeGc, embeddingCache, store, call, providerCalls, rateLeft>>

\* loader.load() / pdfParse answered: unlink the file, ask the splitter.
CachedExtractOk(r) ==
    /\ req[r].kind = "upload" /\ req[r].pc = "extract"
    /\ req' = [req EXCEPT ![r].pc = "split", ![r].tmp = @ \ {req[r].fi}]
    /\ UNCHANGED <<exposeGc, embeddingCache, store, call, providerCalls, rateLeft>>

\* loader.load() / pdfParse threw.
CachedExtractFail(r) ==
    /\ req[r].kind = "upload" /\ req[r].pc = "extract"
    /\ req' = [req EXCEPT ![r] = UploadCatch(req[r], "extract")]
    /\ UNCHANGED <<exposeGc, embeddingCache, store, call, providerCalls, rateLeft>>

\* The splitter answered: `chunks.map(chunk => getEmbedding(chunk))` enters one
\* invocation per chunk, all in this step, and Promise.all is awaited.
CachedSplit(r) ==
    /\ req[r].kind = "upload" /\ req[r].pc = "split"
    /\ LET chunks == req[r].files[req[r].fi].chunks
           cs == [i \in 1..Len(chunks) |-> Enter(embeddingCache, chunks[i], 1, <<>>, 0, <<>>)]
       IN  /\ call' = [call EXCEPT ![r] = cs]
           /\ providerCalls' = Issued(providerCalls, cs, 1..Len(cs))
           /\ req' = [req EXCEPT ![r] =
                        UploadAfterCalls([req[r] EXCEPT !.chunks = chunks, !.pc = "all"], cs)]
    /\ UNCHANGED <<exposeGc, embeddingCache, store, rateLeft>>

\* Variant: save replaces the stored document that has the same chunk text.
saveUpsert(collection, doc) ==
    IF \E n \in 1..Len(collection) : collection[n].chunk = doc.chunk
    THEN [n \in 1..Len(collection) |->
             IF collection[n].chunk = doc.chunk THEN doc ELSE collection[n]]
    ELSE Append(collection, doc)

\* `newChunk.save()`: the document is added to the collection.
save(collection, doc) == Append(collection, doc)

\* `await newChunk.save()` succeeded: the document is in the collection.
CachedSaveOk(r) ==
    /\ req[r].kind = "upload" /\ req[r].pc = "save"
    /\ IsVector(req[r].embeddingsArray[req[r].i])
    /\ store' = save(store, ChunkDoc(req[r].files[req[r].fi].name,
                                     req[r].chunks[req[r].i],
                                     req[r].embeddingsArray[req[r].i],
                                     <<r, req[r].fi, req[r].i>>))
    /\ req' = [req EXCEPT ![r] = CachedSaveLoop([req[r] EXCEPT !.i = @ + 1])]
    /\ UNCHANGED <<exposeGc, embeddingCache, call, providerCalls, rateLeft>>

\* `await newChunk.save()` threw: a storage error, or an embedding that is no
\* array of numbers (the schema's `embedding: [Number]`).
CachedSaveFail(r) ==
    /\ req[r].kind = "upload" /\ req[r].pc = "save"
    /\ req' = [req EXCEPT ![r] = UploadCatch(req[r], "store")]
    /\ UNCHANGED <<exposeGc, embeddingCache, store, call, providerCalls, rateLeft>>

-----------------------------------------------------------------------------
(* The provider answers a getEmbedding invocation *)

\* The provider's answer to the outstanding call of an invocation is noted.
Answered(c, status) == [c EXCEPT !.answers = Append(@, status)]

\* embedDocuments([text]) resolved with vector v.
ProviderOk(r, i, v) ==
    /\ i \in 1..Len(call[r]) /\ call[r][i].pc = "await"
    /\ v \in ProviderVecs(call[r][i].text)
    /\ embeddingCache' = CacheStore(embeddingCache, call[r][i].text, v)
    /\ call' = [call EXCEPT ![r][i] = OnEmbedded(Answered(@, 200), v)]
    /\ req' = [req EXCEPT ![r] = AfterCalls(@, call'[r])]
    /\ UNCHANGED <<exposeGc, store, providerCalls, rateLeft>>

\* embedDocuments([text]) rejected with HTTP 429.
ProviderRateLimit(r, i) ==
    /\ i \in 1..Len(call[r]) /\ call[r][i].pc = "await"
    /\ rateLeft > 0
    /\ rateLeft' = rateLeft - 1
    /\ call' = [call EXCEPT ![r][i] = OnProviderError(Answered(@, 429), 429)]
    /\ req' = [req EXCEPT ![r] = AfterCalls(@, call'[r])]
    /\ UNCHANGED <<exposeGc, embeddingCache, store, providerCalls>>

\* embedDocuments([text]) rejected with another error.
ProviderError(r, i) ==
    /\ i \in 1..Len(call[r]) /\ call[r][i].pc = "await"
    /\ call' = [call EXCEPT ![r][i] = OnProviderError(Answered(@, 500), 500)]
    /\ req' = [req EXCEPT ![r] = AfterCalls(@, call'[r])]
    /\ UNCHANGED <<exposeGc, embeddingCache, store, providerCalls, rateLeft>>

\* The backoff timer of an invocation fired: getEmbedding is entered again.
RetryTimer(r, i) ==
    /\ i \in 1..Len(call[r]) /\ call[r][i].pc = "wait"
    /\ call' = [call EXCEPT ![r][i] = OnTimer(embeddingCache, @)]
    /\ providerCalls' = Issued(providerCalls, call'[r], {i})
    /\ req' = [req EXCEPT ![r] = AfterCalls(@, call'[r])]
    /\ UNCHANGED <<exposeGc, embeddingCache, store, rateLeft>>

-----------------------------------------------------------------------------
(* Ranking: cosineSimilarity, sort, slice *)

Dot(a, b) == SumSeq([i \in 1..Len(a) |-> a[i] * b[i]])

(* Numbers are binary floating-point values m * 2^e with a mantissa of
   MantissaBits bits, every operation rounded to the nearest value, ties to
   the even mantissa, as IEEE 754 prescribes for the doubles of JavaScript
   (53 bits there).  The sums of the loop are integers small enough to be
   exact. *)

Float(m, e) == [nan |-> FALSE, m |-> m, e |-> e]

NaN == [nan |-> TRUE, m |-> 0, e |-> 0]

Abs(n) == IF n < 0 THEN 0 - n ELSE n

\* n / d brought into the mantissa's range by powers of two.
RECURSIVE Normalized(_, _, _)
Normalized(n, d, e) ==
    IF n >= d * Pow2(MantissaBits) THEN Normalized(n, 2 * d, e + 1)
    ELSE IF n < d * Pow2(MantissaBits - 1) THEN Normalized(2 * n, d, e - 1)
    ELSE [n |-> n, d |-> d, e |-> e]

\* The float nearest to n / d * 2^e, for integers n > 0 and d > 0.
RoundRatio(n, d, e) ==
    LET x == Normalized(n, d, e)
        q == x.n \div x.d
        r == x.n % x.d
        m == IF 2 * r > x.d \/ (2 * r = x.d /\ q % 2 = 1) THEN q + 1 ELSE q
    IN  IF m = Pow2(MantissaBits) THEN Float(Pow2(MantissaBits - 1), x.e + 1)
        ELSE Float(m, x.e)

\* n * 4^k in the range of a squared mantissa, for 0 < n < 4^MantissaBits.
RECURSIVE SquareScaled(_, _)
SquareScaled(n, k) ==
    IF n < Pow2(2 * MantissaBits - 2) THEN SquareScaled(4 * n, k + 1)
    ELSE [n |-> n, k |-> k]

\* Math.sqrt(n) for an integer 0 <= n < 4^MantissaBits.
Sqrt(n) ==
    IF n = 0 THEN Float(0, 0)
    ELSE LET x == SquareScaled(n, 0)
             f == CHOOSE m \in Pow2(MantissaBits - 1)..(Pow2(MantissaBits) - 1) :
                     m * m <= x.n /\ x.n < (m + 1) * (m + 1)
             m == IF (2 * f + 1) * (2 * f + 1) < 4 * x.n THEN f + 1 ELSE f
         IN  IF m = Pow2(MantissaBits) THEN Float(Pow2(MantissaBits - 1), 1 - x.k)
             ELSE Float(m, 0 - x.k)

\* a * b of two non-negative floats.
Times(a, b) ==
    IF a.m = 0 \/ b.m = 0 THEN Float(0, 0)
    ELSE RoundRatio(a.m * b.m, 1, a.e + b.e)

\* n / b for an integer n and a non-negative float b; 0 / 0 is NaN.
Over(n, b) ==
    IF b.m = 0 THEN NaN
    ELSE IF n = 0 THEN Float(0, 0)
    ELSE LET q == RoundRatio(Abs(n), b.m, 0 - b.e)
         IN  IF n < 0 THEN Float(0 - q.m, q.e) ELSE q
\* Variant: the quotient is normalised by the first vector's norm alone.
cosineSimilarityOneNorm(vecA, vecB) ==
    Over(Dot(vecA, vecB), Times(Sqrt(Dot(vecA, vecA)), Sqrt(Dot(vecA, vecA))))

\* dotProduct / (Math.sqrt(normA) * Math.sqrt(normB))
cosineSimilarity(vecA, vecB) ==
    Over(Dot(vecA, vecB), Times(Sqrt(Dot(vecA, vecA)), Sqrt(Dot(vecB, vecB))))

IsNaN(s) == s.nan

\* m * 2^e of a number as an integer multiple of 2^low.
Scaled(s, low) == IF s.m = 0 THEN 0 ELSE s.m * Pow2(s.e - low)

\* s < t; false when either is NaN.
ScoreLess(s, t) ==
    /\ ~IsNaN(s) /\ ~IsNaN(t)
    /\ LET low == Min(IF s.m = 0 THEN t.e ELSE s.e, IF t.m = 0 THEN s.e ELSE t.e)
       IN  Scaled(s, low) < Scaled(t, low)
\* Variant: the comparator sorts ascending (`a.similarityScore - b.similarityScore`).
ComparatorAscending(a, b) ==
    IF IsNaN(a.similarityScore) \/ IsNaN(b.similarityScore) THEN 0
    ELSE IF ScoreLess(a.similarityScore, b.similarityScore) THEN 0 - 1
    ELSE IF ScoreLess(b.similarityScore, a.similarityScore) THEN 1
    ELSE 0

\* The comparator `(a, b) => b.similarityScore - a.similarityScore`: negative
\* when a goes first, positive when b goes first; a NaN difference counts as 0.
Comparator(a, b) ==
    IF IsNaN(a.similarityScore) \/ IsNaN(b.similarityScore) THEN 0
    ELSE IF ScoreLess(b.similarityScore, a.similarityScore) THEN 0 - 1
    ELSE IF ScoreLess(a.similarityScore, b.similarityScore) THEN 1
    ELSE 0
\* Variant: an unstable sort, x goes ahead of the elements it ties with.
RECURSIVE InsertSortedUnstable(_, _)
InsertSortedUnstable(sorted, x) ==
    IF sorted = <<>> THEN <<x>>
    ELSE IF Comparator(Head(sorted), x) < 0
         THEN <<Head(sorted)>> \o InsertSortedUnstable(Tail(sorted), x)
         ELSE <<x>> \o sorted

\* Array.prototype.sort is stable: x goes behind every element that does not
\* compare after it.
RECURSIVE InsertSorted(_, _)
InsertSorted(sorted, x) ==
    IF sorted = <<>> THEN <<x>>
    ELSE IF Comparator(Head(sorted), x) <= 0
         THEN <<Head(sorted)>> \o InsertSorted(Tail(sorted), x)
         ELSE <<x>> \o sorted

RECURSIVE SortScored(_)
SortScored(s) ==
    IF s = <<>> THEN <<>>
    ELSE InsertSorted(SortScored(SubSeq(s, 1, Len(s) - 1)), s[Len(s)])

\* allChunks.map(score).sort(comparator).slice(0, 5)
TopChunks(queryVector, allChunks) ==
    LET scored == [i \in 1..Len(allChunks) |->
                      [chunk |-> allChunks[i],
                       similarityScore |-> cosineSimilarity(queryVector,
                                                            allChunks[i].embedding)]]
        sorted == SortScored(scored)
    IN  SubSeq(sorted, 1, Min(TopK, Len(sorted)))
\* Variant: the lines are joined last record first.
ContextReversed(similarChunks) ==
    [i \in 1..Len(similarChunks) |->
        <<similarChunks[Len(similarChunks) + 1 - i].chunk.fileName,
          similarChunks[Len(similarChunks) + 1 - i].chunk.chunk>>]

\* One line `${fileName}: ${chunk}` per selected record, joined by newlines.
Context(similarChunks) ==
    [i \in 1..Len(similarChunks) |->
        <<similarChunks[i].chunk.fileName, similarChunks[i].chunk.chunk>>]

-----------------------------------------------------------------------------
(* /chat *)

\* The request arrives: `await getEmbedding(userInput)`.
CachedChatBegin(r) ==
    /\ req[r].kind = "chat" /\ req[r].pc = "new"
    /\ LET cs == <<Enter(embeddingCache, req[r].question, 1, <<>>, 0, <<>>)>>
       IN  /\ call' = [call EXCEPT ![r] = cs]
           /\ providerCalls' = Issued(providerCalls, cs, {1})
           /\ req' = [req EXCEPT ![r] = ChatAfterCalls([req[r] EXCEPT !.pc = "embed"], cs)]
    /\ UNCHANGED <<exposeGc, embeddingCache, store, rateLeft>>

\* Variant: the empty ranking is not checked for.
NoRelevantNever(similarChunks) == FALSE

\* `if (similarChunks.length === 0)`
NoRelevant(similarChunks) == Len(similarChunks) = 0

\* The prompt is built from the ranking and sent to the model.
AskModel(rq, similarChunks) ==
    [rq EXCEPT !.similarChunks = similarChunks,
               !.context = Context(similarChunks),
               !.pc = "llm"]

\* Chunk.find() answered with the collection: rank it; an empty ranking is
\* answered 404, else the prompt goes to the model.  A query vector that is
\* no array makes cosineSimilarity throw on the first record.
ChatFind(r) ==
    /\ req[r].kind = "chat" /\ req[r].pc = "find"
    /\ req' = [req EXCEPT ![r] =
                 IF store # <<>> /\ ~IsVector(req[r].queryVector)
                 THEN ChatCatch(req[r], "type")
                 ELSE IF NoRelevant(TopChunks(req[r].queryVector, store))
                 THEN Reply(req[r], 404, "No relevant information found.", <<>>)
                 ELSE AskModel(req[r], TopChunks(req[r].queryVector, store))]
    /\ UNCHANGED <<exposeGc, embeddingCache, store, call, providerCalls, rateLeft>>

\* Chunk.find() threw.
ChatFindFail(r) ==
    /\ req[r].kind = "chat" /\ req[r].pc = "find"
    /\ req' = [req EXCEPT ![r] = ChatCatch(req[r], "store")]
    /\ UNCHANGED <<exposeGc, embeddingCache, store, call, providerCalls, rateLeft>>

\* llm.invoke answered: `res.json({ answer })`.
ChatLlmOk(r) ==
    /\ req[r].kind = "chat" /\ req[r].pc = "llm"
    /\ req' = [req EXCEPT ![r] = Reply(req[r], 200, "answer", <<>>)]
    /\ UNCHANGED <<exposeGc, embeddingCache, store, call, providerCalls, rateLeft>>

\* llm.invoke threw.
ChatLlmFail(r) ==
    /\ req[r].kind = "chat" /\ req[r].pc = "llm"
    /\ req' = [req EXCEPT ![r] = ChatCatch(req[r], "llm")]
    /\ UNCHANGED <<exposeGc, embeddingCache, store, call, providerCalls, rateLeft>>

-----------------------------------------------------------------------------
(* The cached version of the server *)

EmptyCache == [t \in Texts |-> Undefined]

InitCommon ==
    /\ embeddingCache = EmptyCache
    /\ store = <<>>
    /\ call = [r \in Reqs |-> <<>>]
    /\ providerCalls = [t \in Texts |-> 0]
    /\ exposeGc = FALSE

InitCached ==
    /\ InitCommon
    /\ req \in {f \in [Reqs -> {NewRequest(x) : x \in CachedInputs(1) \cup CachedInputs(2)}] :
                  \A r \in Reqs : \E x \in CachedInputs(r) : f[r] = NewRequest(x)}
    /\ rateLeft = MaxRateLimited

GetEmbeddingStep ==
    \E r \in Reqs : \E i \in 1..Len(call[r]) :
        \/ \E v \in AllVecs : ProviderOk(r, i, v)
        \/ ProviderRateLimit(r, i)
        \/ ProviderError(r, i)
        \/ RetryTimer(r, i)

NextCached ==
    \/ \E r \in Reqs : CachedUploadBegin(r)
    \/ \E r \in Reqs : CachedExtractOk(r)
    \/ \E r \in Reqs : CachedExtractFail(r)
    \/ \E r \in Reqs : CachedSplit(r)
    \/ \E r \in Reqs : CachedSaveOk(r)
    \/ \E r \in Reqs : CachedSaveFail(r)
    \/ \E r \in Reqs : CachedChatBegin(r)
    \/ \E r \in Reqs : ChatFind(r)
    \/ \E r \in Reqs : ChatFindFail(r)
    \/ \E r \in Reqs : ChatLlmOk(r)
    \/ \E r \in Reqs : ChatLlmFail(r)
    \/ GetEmbeddingStep

SpecCached == InitCached /\ [][NextCached]_vars

\* The cached version receiving a file of six chunks.
InitFanout ==
    /\ InitCommon
    /\ req \in {f \in [Reqs -> {NewRequest(x) : x \in FanoutInputs(1) \cup FanoutInputs(2)}] :
                  \A r \in Reqs : \E x \in FanoutInputs(r) : f[r] = NewRequest(x)}
    /\ rateLeft = FanoutRateLimited

SpecFanout == InitFanout /\ [][NextCached]_vars

-----------------------------------------------------------------------------
(* The batched version of the server: /upload with the batch loop *)

\* Variant: the slice starts at the beginning of the file every time.
batchChunksFromStart(chunks, i) == SubSeq(chunks, 1, Min(i + batchSize, Len(chunks)))

\* `chunks.slice(i, i + batchSize)`, i counted from 0.
batchChunks(chunks, i) == SubSeq(chunks, i + 1, Min(i + batchSize, Len(chunks)))
\* Variant: the vectors are attached in reverse order.
chunkDocsReversed(r, rq) ==
    [j \in 1..Len(rq.batch) |->
        ChunkDoc(rq.files[rq.fi].name, rq.batch[j],
                 rq.embeddingsArray[Len(rq.batch) + 1 - j],
                 <<r, rq.fi, rq.i + j>>)]

\* `batchChunks.map((chunk, j) => ({ fileName, chunk, embedding: embeddingsArray[j] }))`
chunkDocs(r, rq) ==
    [j \in 1..Len(rq.batch) |->
        ChunkDoc(rq.files[rq.fi].name, rq.batch[j], rq.embeddingsArray[j],
                 <<r, rq.fi, rq.i + j>>)]

\* `for (const file of req.files)` at position k: a file that is neither docx
\* nor pdf keeps `content = ""`, is unlinked at once and goes to the splitter.
BatchedLoop(rq, k) ==
    IF k > Len(rq.files)
    THEN Reply(rq, 200, "", rq.chunksArray)
    ELSE IF rq.files[k].ext \in Supported
    THEN [rq EXCEPT !.fi = k, !.pc = "extract"]
    ELSE [rq EXCEPT !.fi = k, !.pc = "split", !.tmp = @ \ {k}]
\* Variant: the loop condition is off by one (`i < chunks.length - 1`).
BatchLoopOffByOne(rq) ==
    IF rq.i < Len(rq.chunks) - 1
    THEN [rq EXCEPT !.batch = batchChunks(rq.chunks, rq.i), !.pc = "embedBatch"]
    ELSE BatchedLoop([rq EXCEPT !.chunksArray =
                         Append(@, [fileName |-> rq.files[rq.fi].name,
                                    chunks |-> rq.chunks])],
                     rq.fi + 1)

\* The head of the batch loop `for (i = 0; i < chunks.length; i += batchSize)`:
\* the next batch is sent to the provider, or the file is pushed.
BatchLoop(rq) ==
    IF rq.i < Len(rq.chunks)
    THEN [rq EXCEPT !.batch = batchChunks(rq.chunks, rq.i), !.pc = "embedBatch"]
    ELSE BatchedLoop([rq EXCEPT !.chunksArray =
                         Append(@, [fileName |-> rq.files[rq.fi].name,
                                    chunks |-> rq.chunks])],
                     rq.fi + 1)

\* Variant: the loop index steps past one chunk.
NextBatchSkip(i) == i + batchSize + 1

\* `i += batchSize`
NextBatch(i) == i + batchSize

\* providerCalls after one embedDocuments(texts) call.
IssuedBatch(pc0, texts) ==
    [t \in Texts |-> pc0[t] + Cardinality({j \in 1..Len(texts) : texts[j] = t})]

BatchedUploadBegin(r) ==
    /\ req[r].kind = "upload" /\ req[r].pc = "new"
    /\ req' = [req EXCEPT ![r] =
                 IF Len(req[r].files) = 0
                 THEN Reply(req[r], 400, "No files were uploaded.", <<>>)
                 ELSE BatchedLoop([req[r] EXCEPT !.tmp = 1..Len(req[r].files)], 1)]
    /\ UNCHANGED <<exposeGc, embeddingCache, store, call, providerCalls, rateLeft>>

\* loader.load() / pdfParse answered: unlink the file, ask the splitter.
BatchedExtractOk(r) ==
    /\ req[r].kind = "upload" /\ req[r].pc = "extract"
    /\ req' = [req EXCEPT ![r].pc = "split", ![r].tmp = @ \ {req[r].fi}]
    /\ UNCHANGED <<exposeGc, embeddingCache, store, call, providerCalls, rateLeft>>

BatchedExtractFail(r) ==
    /\ req[r].kind = "upload" /\ req[r].pc = "extract"
    /\ req' = [req EXCEPT ![r] = UploadCatch(req[r], "extract")]
    /\ UNCHANGED <<exposeGc, embeddingCache, store, call, providerCalls, rateLeft>>

\* The splitter answered; the batch loop starts at i = 0.
BatchedSplit(r) ==
    /\ req[r].kind = "upload" /\ req[r].pc = "split"
    /\ LET file == req[r].files[req[r].fi]
           chunks == IF file.ext \in Supported THEN file.chunks ELSE <<>>
           rq == BatchLoop([req[r] EXCEPT !.chunks = chunks, !.i = 0])
       IN  /\ req' = [req EXCEPT ![r] = rq]
           /\ providerCalls' = IF rq.pc = "embedBatch"
                               THEN IssuedBatch(providerCalls, rq.batch)
                               ELSE providerCalls
    /\ UNCHANGED <<exposeGc, embeddingCache, store, call, rateLeft>>

\* embeddings.embedDocuments(batchChunks) answered with one vector per chunk:
\* the documents are built and insertMany is awaited.
BatchedEmbedOk(r) ==
    /\ req[r].kind = "upload" /\ req[r].pc = "embedBatch"
    /\ \E vs \in [1..Len(req[r].batch) -> AllVecs] :
          /\ \A j \in DOMAIN vs : vs[j] \in ProviderVecs(req[r].batch[j])
          /\ req' = [req EXCEPT ![r].embeddingsArray = vs, ![r].pc = "insert"]
    /\ UNCHANGED <<exposeGc, embeddingCache, store, call, providerCalls, rateLeft>>

\* embeddings.embedDocuments(batchChunks) threw (429 or another error): no
\* retry here, the handler's catch block answers.
BatchedEmbedFail(r) ==
    /\ req[r].kind = "upload" /\ req[r].pc = "embedBatch"
    /\ \E status \in {429, 500} :
          req' = [req EXCEPT ![r] = UploadCatch(req[r], CauseOf(status))]
    /\ UNCHANGED <<exposeGc, embeddingCache, store, call, providerCalls, rateLeft>>
\* Variant: insertMany is not awaited and its documents never arrive; the
\* loop goes on at once.
BatchedInsertOkNotAwaited(r) ==
    /\ req[r].kind = "upload" /\ req[r].pc = "insert"
    /\ LET rq == BatchLoop([req[r] EXCEPT !.i = NextBatch(@)])
       IN  /\ req' = [req EXCEPT ![r] = rq]
           /\ providerCalls' = IF rq.pc = "embedBatch"
                               THEN IssuedBatch(providerCalls, rq.batch)
                               ELSE providerCalls
    /\ UNCHANGED <<exposeGc, embeddingCache, store, call, rateLeft>>

\* Chunk.insertMany(chunkDocs) succeeded; the loop goes on with the next batch.
BatchedInsertOk(r) ==
    /\ req[r].kind = "upload" /\ req[r].pc = "insert"
    /\ store' = store \o chunkDocs(r, req[r])
    /\ LET rq == BatchLoop([req[r] EXCEPT !.i = NextBatch(@)])
       IN  /\ req' = [req EXCEPT ![r] = rq]
           /\ providerCalls' = IF rq.pc = "embedBatch"
                               THEN IssuedBatch(providerCalls, rq.batch)
                               ELSE providerCalls
    /\ UNCHANGED <<exposeGc, embeddingCache, call, rateLeft>>

\* Chunk.insertMany(chunkDocs) threw after writing k of the documents (an
\* ordered bulk write stops at the first document that fails).
BatchedInsertFail(r) ==
    /\ req[r].kind = "upload" /\ req[r].pc = "insert"
    /\ \E k \in 0..(Len(chunkDocs(r, req[r])) - 1) :
          store' = store \o SubSeq(chunkDocs(r, req[r]), 1, k)
    /\ req' = [req EXCEPT ![r] = UploadCatch(req[r], "store")]
    /\ UNCHANGED <<exposeGc, embeddingCache, call, providerCalls, rateLeft>>

\* /chat of the batched version: `await embeddings.embedDocuments([userInput])`.
BatchedChatBegin(r) ==
    /\ req[r].kind = "chat" /\ req[r].pc = "new"
    /\ req' = [req EXCEPT ![r].pc = "embed"]
    /\ providerCalls' = IssuedBatch(providerCalls, <<req[r].question>>)
    /\ UNCHANGED <<exposeGc, embeddingCache, store, call, rateLeft>>

BatchedChatEmbedOk(r) ==
    /\ req[r].kind = "chat" /\ req[r].pc = "embed"
    /\ \E v \in ProviderVecs(req[r].question) :
          req' = [req EXCEPT ![r].queryVector = v, ![r].pc = "find"]
    /\ UNCHANGED <<exposeGc, embeddingCache, store, call, providerCalls, rateLeft>>

BatchedChatEmbedFail(r) ==
    /\ req[r].kind = "chat" /\ req[r].pc = "embed"
    /\ \E status \in {429, 500} :
          req' = [req EXCEPT ![r] = ChatCatch(req[r], CauseOf(status))]
    /\ UNCHANGED <<exposeGc, embeddingCache, store, call, providerCalls, rateLeft>>

\* What request 1 and request 2 of a run of the batched version may be.
BatchedInputs(r) ==
    IF r = 1
    THEN { UploadInput(<<FileEleven>>), UploadInput(<<FileTxt, FileSix>>),
           UploadInput(<<>>) }
    ELSE { UploadInput(<<FileAB, FileB>>), ChatInput("a") }

InitBatched ==
    /\ InitCommon
    /\ req \in {f \in [Reqs -> {NewRequest(x) : x \in BatchedInputs(1) \cup BatchedInputs(2)}] :
                  \A r \in Reqs : \E x \in BatchedInputs(r) : f[r] = NewRequest(x)}
    /\ rateLeft = MaxRateLimited

NextBatched ==
    \/ \E r \in Reqs : BatchedUploadBegin(r)
    \/ \E r \in Reqs : BatchedExtractOk(r)
    \/ \E r \in Reqs : BatchedExtractFail(r)
    \/ \E r \in Reqs : BatchedSplit(r)
    \/ \E r \in Reqs : BatchedEmbedOk(r)
    \/ \E r \in Reqs : BatchedEmbedFail(r)
    \/ \E r \in Reqs : BatchedInsertOk(r)
    \/ \E r \in Reqs : BatchedInsertFail(r)
    \/ \E r \in Reqs : BatchedChatBegin(r)
    \/ \E r \in Reqs : BatchedChatEmbedOk(r)
    \/ \E r \in Reqs : BatchedChatEmbedFail(r)
    \/ \E r \in Reqs : ChatFind(r)
    \/ \E r \in Reqs : ChatFindFail(r)
    \/ \E r \in Reqs : ChatLlmOk(r)
    \/ \E r \in Reqs : ChatLlmFail(r)

SpecBatched == InitBatched /\ [][NextBatched]_vars

-----------------------------------------------------------------------------
(* Properties of getEmbedding and the embedding cache (cached version) *)

Invocations == UNION {{<<r, i>> : i \in 1..Len(call[r])} : r \in Reqs}

Last(s) == s[Len(s)]

\* C1: over the life of the process the provider is asked at most once for
\* each distinct text, whatever the interleaving of getEmbedding calls.
C1_AtMostOneProviderCallPerText ==
    \A t \in Texts : providerCalls[t] <= 1

\* This step entered getEmbedding for invocation i of request r: a first call
\* from a handler, or the recursive call after a backoff wait.
EnteredNow(r, i) ==
    \/ req[r].pc \in {"new", "split"} /\ req'[r].pc # req[r].pc
    \/ /\ i \in 1..Len(call[r])
       /\ call[r][i].pc = "wait"
       /\ call'[r][i].pc # "wait"

MadeBefore(r, i) ==
    IF i \in 1..Len(call[r]) /\ call[r][i].pc = "wait" THEN call[r][i].made ELSE 0

\* C2: a getEmbedding call for a text that an earlier successful call stored in
\* embeddingCache returns exactly the stored vector and does not ask the provider.
C2_CacheHitReturnsStored ==
    [][\A r \in Reqs : \A i \in 1..Len(call'[r]) :
          (EnteredNow(r, i) /\ embeddingCache[call'[r][i].text] # Undefined)
          => /\ call'[r][i].pc = "returned"
             /\ call'[r][i].result = embeddingCache[call'[r][i].text]
             /\ call'[r][i].made = MadeBefore(r, i)
             /\ providerCalls'[call'[r][i].text] = providerCalls[call'[r][i].text]]_vars

\* An invocation was served from a vector that an earlier call had stored.
C2_Witness ==
    \E x \in Invocations :
        LET c == call[x[1]][x[2]]
        IN  c.pc = "returned" /\ c.answers = <<>> /\ IsVector(c.result)
            /\ c.result = embeddingCache[c.text]

OnlyRateLimited(c) == \A k \in 1..Len(c.answers) : c.answers[k] = 429

\* C3: an invocation the provider answers with 429 every time makes exactly
\* the maximum number of attempts (5) and then fails, having waited
\* 2 + 4 + 8 + 16 seconds in all; no invocation makes more attempts, and none
\* fails on a 429 earlier.
C3_RetriesExhausted ==
    \A x \in Invocations :
        LET c == call[x[1]][x[2]]
        IN  /\ c.made <= MaxAttempts
            /\ (c.pc = "threw" /\ OnlyRateLimited(c))
               => /\ c.made = MaxAttempts
                  /\ Len(c.answers) = MaxAttempts
                  /\ c.err = 429
                  /\ SumSeq(c.waits) = SumSeq([n \in 1..(MaxAttempts - 1) |-> Pow2(n)])
            /\ (c.pc = "wait" /\ OnlyRateLimited(c)) => c.made < MaxAttempts

\* An invocation failed after the provider answered all its attempts with 429.
C3_Witness ==
    \E x \in Invocations :
        LET c == call[x[1]][x[2]]
        IN  c.pc = "threw" /\ c.answers = <<429, 429, 429, 429, 429>>

\* C4: the wait after the n-th rate-limited attempt is 2^n seconds; every
\* retry comes after such a wait, and the waits grow strictly.
C4_ExponentialBackoff ==
    \A x \in Invocations :
        LET c == call[x[1]][x[2]]
        IN  /\ \A n \in 1..Len(c.waits) : c.waits[n] = Pow2(n) /\ c.answers[n] = 429
            /\ \A n \in 1..(Len(c.waits) - 1) : c.waits[n] < c.waits[n + 1]
            /\ c.made <= Len(c.waits) + 1
            /\ Len(c.waits) < MaxAttempts

\* An invocation is at its third attempt, after waits of 2 and 4 seconds.
C4_Witness ==
    \E x \in Invocations :
        LET c == call[x[1]][x[2]]
        IN  c.pc = "await" /\ c.made = 3 /\ c.waits = <<2, 4>>

Failed(r) == req[r].pc = "done" /\ req[r].resp.status = 500

\* C5: a request that failed because the retries were exhausted is answered
\* differently from a request to the same endpoint that failed on another
\* provider error, so the caller can tell the two apart.
C5_RateLimitDistinguishable ==
    \A r1, r2 \in Reqs :
        (/\ Failed(r1) /\ Failed(r2)
         /\ req[r1].kind = req[r2].kind
         /\ req[r1].cause = "rate" /\ req[r2].cause = "provider")
        => req[r1].resp # req[r2].resp

\* C6: a provider error that is not a 429 ends the invocation at once: no
\* wait, no further provider call, and embeddingCache is left as it was.
C6_OtherErrorFailsAtOnce ==
    /\ [](\A x \in Invocations :
            LET c == call[x[1]][x[2]]
            IN  (c.answers # <<>> /\ Last(c.answers) = 500)
                => /\ c.pc = "threw"
                   /\ c.made = Len(c.answers)
                   /\ Len(c.waits) = Len(c.answers) - 1)
    /\ [][\A r \in Reqs : \A i \in 1..Len(call[r]) :
            (/\ i \in 1..Len(call'[r])
             /\ call[r][i].pc = "await"
             /\ call'[r][i].answers = Append(call[r][i].answers, 500))
            => /\ embeddingCache' = embeddingCache
               /\ providerCalls' = providerCalls
               /\ call'[r][i].waits = call[r][i].waits]_vars

\* An invocation failed on a non-429 error at its second attempt.
C6_Witness ==
    \E x \in Invocations :
        LET c == call[x[1]][x[2]]
        IN  c.pc = "threw" /\ c.answers = <<429, 500>> /\ c.waits = <<2>>

\* C7: when getEmbedding returns a vector it got from the provider, the cache
\* holds that vector under the exact input text at that moment, on a first
\* attempt and on a retry alike.
C7_CachedBeforeReturn ==
    [][\A r \in Reqs : \A i \in 1..Len(call[r]) :
          (/\ i \in 1..Len(call'[r])
           /\ call[r][i].pc = "await"
           /\ call'[r][i].answers = Append(call[r][i].answers, 200))
          => /\ call'[r][i].pc = "returned"
             /\ IsVector(call'[r][i].result)
             /\ embeddingCache'[call[r][i].text] = call'[r][i].result
             /\ \A t \in Texts \ {call[r][i].text} :
                   embeddingCache'[t] = embeddingCache[t]]_vars

\* An invocation returned the provider's vector on a retry and the cache holds it.
C7_Witness ==
    \E x \in Invocations :
        LET c == call[x[1]][x[2]]
        IN  c.pc = "returned" /\ c.answers = <<429, 200>>
            /\ embeddingCache[c.text] = c.result

-----------------------------------------------------------------------------
(* Properties of batch ingestion *)

\* The collection holds a document made for chunk k of file f of request r.
Stored(r, f, k) == \E n \in 1..Len(store) : store[n].id = <<r, f, k>>

StoredCount(r, f, k) == Cardinality({n \in 1..Len(store) : store[n].id = <<r, f, k>>})

InBatchLoop(r) == req[r].kind = "upload" /\ req[r].pc \in {"embedBatch", "insert"}

\* C8: a file's chunks go through consecutive batches of at most 5; while the
\* embedding call or the insert of a batch is outstanding, every chunk of the
\* earlier batches is stored and no chunk of this or a later batch is.
C8_BatchesSequential ==
    \A r \in Reqs :
        InBatchLoop(r)
        => LET rq == req[r]
           IN  /\ Len(rq.batch) >= 1 /\ Len(rq.batch) <= batchSize
               /\ rq.i % batchSize = 0
               /\ rq.i + Len(rq.batch) <= Len(rq.chunks)
               /\ (Len(rq.batch) < batchSize => rq.i + Len(rq.batch) = Len(rq.chunks))
               /\ \A j \in 1..Len(rq.batch) : rq.batch[j] = rq.chunks[rq.i + j]
               /\ \A k \in 1..Len(rq.chunks) :
                     IF k <= rq.i THEN StoredCount(r, rq.fi, k) = 1
                     ELSE ~Stored(r, rq.fi, k)

\* The embedding call of the third batch of a file is outstanding.
C8_Witness ==
    \E r \in Reqs :
        /\ req[r].kind = "upload" /\ req[r].pc = "embedBatch"
        /\ req[r].i = 2 * batchSize
        /\ Stored(r, req[r].fi, 2 * batchSize)

\* C9: the embedding requests of one ingestion that are outstanding at the
\* provider never number more than the batch size.
C9_OutstandingAtMostBatchSize ==
    \A r \in Reqs :
        Cardinality({i \in 1..Len(call[r]) : call[r][i].pc = "await"}) <= batchSize

FailedInBatch(r) ==
    /\ req[r].kind = "upload" /\ Failed(r)
    /\ req[r].cause \in {"rate", "provider", "store"}

\* C10: after ingestion failed in a batch (its embedding or its insert), every
\* chunk of the earlier batches of that file is stored, once, and no chunk of
\* a later batch is.
C10_OnlyInFlightBatchLost ==
    \A r \in Reqs :
        FailedInBatch(r)
        => \A k \in 1..Len(req[r].chunks) :
              /\ k <= req[r].i => StoredCount(r, req[r].fi, k) = 1
              /\ k > req[r].i + batchSize => ~Stored(r, req[r].fi, k)

\* Ingestion of an eleven-chunk file failed in its second batch.
C10_Witness ==
    \E r \in Reqs :
        /\ FailedInBatch(r)
        /\ req[r].i = batchSize
        /\ Len(req[r].chunks) > 2 * batchSize
        /\ Stored(r, req[r].fi, 1)

-----------------------------------------------------------------------------
(* Properties of the store appends *)

\* C11: an append of ingestion is atomic: after the save loop over a file's
\* chunks (or the insertMany of a batch) failed, either every record of that
\* append is in the store or none is.
C11_AppendAllOrNothing ==
    \A r \in Reqs :
        (req[r].kind = "upload" /\ Failed(r) /\ req[r].cause = "store")
        => \/ \A k \in 1..Len(req[r].chunks) : Stored(r, req[r].fi, k)
           \/ \A k \in 1..Len(req[r].chunks) : ~Stored(r, req[r].fi, k)

-----------------------------------------------------------------------------
(* Properties of the ranking *)

\* The step in which request r ranks the collection and sends the prompt.
Ranked(r) == req[r].kind = "chat" /\ req[r].pc = "find" /\ req'[r].pc = "llm"

\* C13: over a corpus of n records the ranking selects exactly min(5, n) of
\* them, each scored with its cosine similarity to the query vector, in
\* non-increasing order of score, and no record left out has a greater score
\* than a selected one.
C13_TopFiveByScore ==
    [][\A r \in Reqs :
          Ranked(r) =>
          LET s == req'[r].similarChunks
              q == req[r].queryVector
          IN  /\ Len(s) = Min(TopK, Len(store))
              /\ \A i \in 1..Len(s) :
                    /\ \E n \in 1..Len(store) : store[n] = s[i].chunk
                    /\ s[i].similarityScore = cosineSimilarity(q, s[i].chunk.embedding)
              /\ \A i, j \in 1..Len(s) : i < j => s[i].chunk.id # s[j].chunk.id
              /\ \A i \in 1..(Len(s) - 1) :
                    ~ScoreLess(s[i].similarityScore, s[i + 1].similarityScore)
              /\ \A n \in 1..Len(store) :
                    (\A i \in 1..Len(s) : s[i].chunk # store[n])
                    => \A i \in 1..Len(s) :
                          ~ScoreLess(s[i].similarityScore,
                                     cosineSimilarity(q, store[n].embedding))]_vars

\* A ranking of five records with positive scores that are not all equal:
\* the corpus held at least nine records, the lower ones were left out.
C13_Witness ==
    \E r \in Reqs :
        /\ req[r].kind = "chat" /\ req[r].pc = "llm"
        /\ Len(req[r].similarChunks) = TopK
        /\ \A i \in 1..TopK : req[r].similarChunks[i].similarityScore.m > 0
        /\ ScoreLess(req[r].similarChunks[TopK].similarityScore,
                     req[r].similarChunks[1].similarityScore)

\* C14: a /chat that finds the collection empty answers 404 "No relevant
\* information found." in that very step; the prompt is never sent to the
\* model and no answer is returned.
C14_EmptyCorpusNoRelevantResults ==
    [][\A r \in Reqs :
          (/\ req[r].kind = "chat" /\ req[r].pc = "find" /\ store = <<>>
           /\ req'[r] # req[r] /\ req'[r].cause # "store")
          => /\ req'[r].pc = "done"
             /\ req'[r].resp = Response(404, "No relevant information found.", <<>>)
             /\ req'[r].sends = 1]_vars

\* A chat answered 404 while the collection is still empty.
C14_Witness ==
    \E r \in Reqs :
        /\ req[r].kind = "chat" /\ req[r].pc = "done" /\ store = <<>>
        /\ req[r].resp.status = 404

-----------------------------------------------------------------------------
(* cosineSimilarity over a collection that already holds records: the
   records of MongoDB outlive the server, and `embedding: [Number]` admits
   any array of numbers, the zero vector included. *)

ZeroVec == <<0, 0>>

\* Record k of a collection found at start (request 0, file 1).
Found(k, chunk, embedding) == ChunkDoc("old.pdf", chunk, embedding, <<0, 1, k>>)

\* The collections a run may start with.
RankingCorpora ==
    { <<>>,
      <<Found(1, "b", ZeroVec)>>,
      <<Found(1, "a", <<1, 0>>), Found(2, "b", ZeroVec), Found(3, "a", <<2, 1>>)>>,
      <<Found(1, "b", ZeroVec), Found(2, "b", ZeroVec), Found(3, "b", ZeroVec),
        Found(4, "b", ZeroVec), Found(5, "b", ZeroVec), Found(6, "a", <<1, 0>>)>>,
      <<Found(1, "a", <<1, 1>>), Found(2, "b", <<-1, 2>>), Found(3, "a", <<2, 1>>),
        Found(4, "a", <<3, 0>>)>> }

RankingInputs(r) == IF r = 1 THEN { ChatInput("a") } ELSE { ChatInput("a"), ChatInput("b") }

InitRanking ==
    /\ embeddingCache = EmptyCache
    /\ store \in RankingCorpora
    /\ call = [r \in Reqs |-> <<>>]
    /\ providerCalls = [t \in Texts |-> 0]
    /\ exposeGc = FALSE
    /\ req \in {f \in [Reqs -> {NewRequest(x) : x \in RankingInputs(1) \cup RankingInputs(2)}] :
                  \A r \in Reqs : \E x \in RankingInputs(r) : f[r] = NewRequest(x)}
    /\ rateLeft = MaxRateLimited

NextRanking ==
    \/ \E r \in Reqs : BatchedChatBegin(r)
    \/ \E r \in Reqs : BatchedChatEmbedOk(r)
    \/ \E r \in Reqs : BatchedChatEmbedFail(r)
    \/ \E r \in Reqs : ChatFind(r)
    \/ \E r \in Reqs : ChatFindFail(r)
    \/ \E r \in Reqs : ChatLlmOk(r)
    \/ \E r \in Reqs : ChatLlmFail(r)

SpecRanking == InitRanking /\ [][NextRanking]_vars

ZeroMagnitude(v) == Dot(v, v) = 0

\* C15: in every ranking, a record whose vector (or whose query vector) has
\* zero magnitude is scored with the number 0, never with NaN.
C15_ZeroMagnitudeScoresZero ==
    \A r \in Reqs :
        \A i \in 1..Len(req[r].similarChunks) :
            LET sc == req[r].similarChunks[i]
            IN  (ZeroMagnitude(req[r].queryVector) \/ ZeroMagnitude(sc.chunk.embedding))
                => ~IsNaN(sc.similarityScore) /\ sc.similarityScore.m = 0

\* The position of a record in the collection, which is its insertion rank.
Pos(doc) == CHOOSE n \in 1..Len(store) : store[n] = doc

SameScore(s, t) == ~ScoreLess(s, t) /\ ~ScoreLess(t, s)

\* C16: records with equal scores appear in the ranking in the order of
\* their insertion into the store, and of the records that tie with the last
\* selected one the earliest inserted are the ones selected.
C16_TiesInInsertionOrder ==
    [][\A r \in Reqs :
          Ranked(r) =>
          LET s == req'[r].similarChunks
              q == req[r].queryVector
          IN  /\ \A i, j \in 1..Len(s) :
                    (i < j /\ SameScore(s[i].similarityScore, s[j].similarityScore))
                    => Pos(s[i].chunk) < Pos(s[j].chunk)
              /\ \A n \in 1..Len(store), i \in 1..Len(s) :
                    (/\ \A j \in 1..Len(s) : s[j].chunk # store[n]
                     /\ SameScore(s[i].similarityScore,
                                  cosineSimilarity(q, store[n].embedding)))
                    => Pos(s[i].chunk) < n]_vars

\* A ranking of five in which two records tie.
C16_Witness ==
    \E r \in Reqs :
        /\ req[r].kind = "chat" /\ req[r].pc = "llm"
        /\ Len(req[r].similarChunks) = TopK
        /\ \E i, j \in 1..TopK :
              /\ i < j
              /\ SameScore(req[r].similarChunks[i].similarityScore,
                           req[r].similarChunks[j].similarityScore)

-----------------------------------------------------------------------------
(* Properties of multi-file uploads *)

\* C17: a failure while one file of an upload is processed stops that file
\* only: once the request is answered, every chunk of every later file of the
\* request is stored.
C17_LaterSiblingsIngested ==
    \A r \in Reqs :
        (req[r].kind = "upload" /\ Failed(r))
        => \A f \in (req[r].fi + 1)..Len(req[r].files) :
              \A k \in 1..Len(req[r].files[f].chunks) : Stored(r, f, k)

\* The files of an upload that are docx or pdf, as the response lists them.
RECURSIVE Reported(_)
Reported(files) ==
    IF files = <<>> THEN <<>>
    ELSE IF Head(files).ext \in Supported
         THEN <<[fileName |-> Head(files).name, chunks |-> Head(files).chunks]>>
              \o Reported(Tail(files))
         ELSE Reported(Tail(files))

\* C18: a file that is neither docx nor pdf is skipped: no record is stored
\* for it, the handler never extracts, embeds or saves on its behalf (so no
\* failure comes from it), and a successful upload reports exactly the other
\* files, in order, with all their chunks stored.
C18_UnsupportedSkipped ==
    \A r \in Reqs :
        req[r].kind = "upload" =>
        /\ \A n \in 1..Len(store) :
              store[n].id[1] = r => req[r].files[store[n].id[2]].ext \in Supported
        /\ req[r].fi > 0 =>
              /\ req[r].files[req[r].fi].ext \in Supported
              /\ \A i \in 1..Len(call[r]) :
                    call[r][i].text = req[r].files[req[r].fi].chunks[i]
        /\ (req[r].pc = "done" /\ req[r].resp.status = 200) =>
              /\ req[r].resp.files = Reported(req[r].files)
              /\ \A f \in 1..Len(req[r].files) :
                    req[r].files[f].ext \in Supported
                    => \A k \in 1..Len(req[r].files[f].chunks) : Stored(r, f, k)

\* An upload with an unsupported file ahead of a pdf answered 200, the pdf stored.
C18_Witness ==
    \E r \in Reqs :
        /\ req[r].kind = "upload" /\ req[r].pc = "done" /\ req[r].resp.status = 200
        /\ \E f \in 1..Len(req[r].files) : req[r].files[f].ext \notin Supported
        /\ \E f \in 1..Len(req[r].files) : Stored(r, f, 1)

-----------------------------------------------------------------------------
(* Properties of the store as a whole *)

\* C19: every step leaves the records already stored in place and unchanged
\* (the store only grows at its end), and a step of a /chat request leaves the
\* store exactly as it was.
C19_AppendOnlyReadOnlyChat ==
    [][/\ Len(store') >= Len(store)
       /\ SubSeq(store', 1, Len(store)) = store
       /\ \A r \in Reqs :
             (req[r].kind = "chat" /\ (req'[r] # req[r] \/ call'[r] # call[r]))
             => store' = store]_vars

\* A chat answered from a collection that an upload filled with several records.
C19_Witness ==
    \E r \in Reqs :
        /\ req[r].kind = "chat" /\ req[r].pc = "done" /\ req[r].resp.status = 200
        /\ Len(store) >= 2

-----------------------------------------------------------------------------
(* The version that calls global.gc(): the batch loop of /upload after
   each tenth batch, /chat after the answer was sent.  global.gc is a
   function only when Node was started with --expose-gc (exposeGc); calling
   it otherwise throws a TypeError inside the handler's try block. *)

\* `i % (5 * 10) === 0`
GcDue(i) == i % (batchSize * 10) = 0

\* `for (const file of req.files)` at position k: a file that is neither
\* docx nor pdf is read as text by streamFileContent.
GcLoop(rq, k) ==
    IF k > Len(rq.files)
    THEN Reply(rq, 200, "", rq.chunksArray)
    ELSE [rq EXCEPT !.fi = k, !.pc = "extract"]

\* The head of the batch loop `for (i = 0; i < chunks.length; i += 5)`.
GcBatchLoop(rq) ==
    IF rq.i < Len(rq.chunks)
    THEN [rq EXCEPT !.batch = batchChunks(rq.chunks, rq.i), !.pc = "embedBatch"]
    ELSE GcLoop([rq EXCEPT !.chunksArray =
                    Append(@, [fileName |-> rq.files[rq.fi].name,
                               chunks |-> rq.chunks])],
                rq.fi + 1)

GcUploadBegin(r) ==
    /\ req[r].kind = "upload" /\ req[r].pc = "new"
    /\ req' = [req EXCEPT ![r] =
                 IF Len(req[r].files) = 0
                 THEN Reply(req[r], 400, "No files were uploaded.", <<>>)
                 ELSE GcLoop([req[r] EXCEPT !.tmp = 1..Len(req[r].files)], 1)]
    /\ UNCHANGED <<exposeGc, embeddingCache, store, call, providerCalls, rateLeft>>

\* The splitter answered with the chunks of the file, whatever its format.
GcSplit(r) ==
    /\ req[r].kind = "upload" /\ req[r].pc = "split"
    /\ LET rq == GcBatchLoop([req[r] EXCEPT !.chunks = req[r].files[req[r].fi].chunks,
                                            !.i = 0])
       IN  /\ req' = [req EXCEPT ![r] = rq]
           /\ providerCalls' = IF rq.pc = "embedBatch"
                               THEN IssuedBatch(providerCalls, rq.batch)
                               ELSE providerCalls
    /\ UNCHANGED <<exposeGc, embeddingCache, store, call, rateLeft>>

\* Chunk.insertMany(chunkDocs) succeeded; global.gc() is called when due, and
\* its TypeError goes to the catch block of /upload.
GcInsertOk(r) ==
    /\ req[r].kind = "upload" /\ req[r].pc = "insert"
    /\ store' = store \o chunkDocs(r, req[r])
    /\ LET rq == IF GcDue(req[r].i) /\ ~exposeGc
                 THEN UploadCatch(req[r], "gc")
                 ELSE GcBatchLoop([req[r] EXCEPT !.i = NextBatch(@)])
       IN  /\ req' = [req EXCEPT ![r] = rq]
           /\ providerCalls' = IF rq.pc = "embedBatch"
                               THEN IssuedBatch(providerCalls, rq.batch)
                               ELSE providerCalls
    /\ UNCHANGED <<exposeGc, embeddingCache, call, rateLeft>>

\* `cursor.toArray()` answered: rank, build the prompt and send it to the
\* model; an empty ranking is not looked for.
GcChatFind(r) ==
    /\ req[r].kind = "chat" /\ req[r].pc = "find"
    /\ req' = [req EXCEPT ![r] = AskModel(req[r], TopChunks(req[r].queryVector, store))]
    /\ UNCHANGED <<exposeGc, embeddingCache, store, call, providerCalls, rateLeft>>

\* llm.invoke answered: `res.json({ answer })`, then `global.gc()`; its
\* TypeError is caught and `res.status(500).send(...)` is attempted on the
\* response that was already sent.
GcChatLlmOk(r) ==
    /\ req[r].kind = "chat" /\ req[r].pc = "llm"
    /\ req' = [req EXCEPT ![r] =
                 IF exposeGc
                 THEN Reply(req[r], 200, "answer", <<>>)
                 ELSE [Reply(req[r], 200, "answer", <<>>) EXCEPT !.sends = @ + 1,
                                                                  !.cause = "gc"]]
    /\ UNCHANGED <<exposeGc, embeddingCache, store, call, providerCalls, rateLeft>>

GcInputs(r) ==
    IF r = 1
    THEN { UploadInput(<<FileTxt, FileSix>>), UploadInput(<<>>) }
    ELSE { UploadInput(<<FileB>>), ChatInput("a") }

InitGc ==
    /\ embeddingCache = EmptyCache
    /\ store = <<>>
    /\ call = [r \in Reqs |-> <<>>]
    /\ providerCalls = [t \in Texts |-> 0]
    /\ exposeGc \in BOOLEAN
    /\ req \in {f \in [Reqs -> {NewRequest(x) : x \in GcInputs(1) \cup GcInputs(2)}] :
                  \A r \in Reqs : \E x \in GcInputs(r) : f[r] = NewRequest(x)}
    /\ rateLeft = MaxRateLimited

NextGc ==
    \/ \E r \in Reqs : GcUploadBegin(r)
    \/ \E r \in Reqs : BatchedExtractOk(r)
    \/ \E r \in Reqs : BatchedExtractFail(r)
    \/ \E r \in Reqs : GcSplit(r)
    \/ \E r \in Reqs : BatchedEmbedOk(r)
    \/ \E r \in Reqs : BatchedEmbedFail(r)
    \/ \E r \in Reqs : GcInsertOk(r)
    \/ \E r \in Reqs : BatchedInsertFail(r)
    \/ \E r \in Reqs : BatchedChatBegin(r)
    \/ \E r \in Reqs : BatchedChatEmbedOk(r)
    \/ \E r \in Reqs : BatchedChatEmbedFail(r)
    \/ \E r \in Reqs : GcChatFind(r)
    \/ \E r \in Reqs : ChatFindFail(r)
    \/ \E r \in Reqs : GcChatLlmOk(r)
    \/ \E r \in Reqs : ChatLlmFail(r)

SpecGc == InitGc /\ [][NextGc]_vars

\* C20: a request that is over has sent exactly one response, and a request
\* that is not over has sent none: no second response is ever attempted.
C20_ExactlyOneResponse ==
    \A r \in Reqs :
        IF req[r].pc = "done" THEN req[r].sends = 1 ELSE req[r].sends = 0

-----------------------------------------------------------------------------
(* Properties of the prompt *)

-----------------------------------------------------------------------------
(* Properties of cosineSimilarity as a function *)

One == Float(Pow2(MantissaBits - 1), 1 - MantissaBits)

\* |s - 1| is at most four units of 2^-MantissaBits: the roundings of the two
\* square roots, of their product and of the quotient.
WithinRoundingOfOne(s) ==
    /\ ~IsNaN(s) /\ s.m > 0 /\ s.e >= 0 - MantissaBits
    /\ Abs(Scaled(s, 0 - MantissaBits) - Pow2(MantissaBits)) <= 4

\* The scores of the rankings, each with the query vector and the record
\* vector it was computed from, both of nonzero magnitude.
Scores ==
    { [q |-> req[r].queryVector,
       v |-> req[r].similarChunks[i].chunk.embedding,
       score |-> req[r].similarChunks[i].similarityScore] :
      <<r, i>> \in { p \in Reqs \X (1..TopK) :
                       /\ p[2] <= Len(req[p[1]].similarChunks)
                       /\ ~ZeroMagnitude(req[p[1]].queryVector)
                       /\ ~ZeroMagnitude(req[p[1]].similarChunks[p[2]].chunk.embedding) } }

\* C22 as stated: the similarity is symmetric, and the similarity of a vector
\* with itself is exactly 1.
C22_SymmetricAndSelfIsOne ==
    \A x \in Scores :
        /\ x.score = cosineSimilarity(x.v, x.q)
        /\ x.q = x.v => x.score = One

\* C22 as amended: the similarity is symmetric, and the similarity of a vector
\* with itself is 1 up to the rounding of the four floating-point operations.
C22_SymmetricAndSelfNearOne ==
    \A x \in Scores :
        /\ x.score = cosineSimilarity(x.v, x.q)
        /\ x.q = x.v => WithinRoundingOfOne(x.score)

\* A vector scored against itself, the result rounded away from 1, next to a
\* score of two vectors of different magnitude.
C22_Witness ==
    /\ \E x \in Scores : x.q = x.v /\ x.score # One
    /\ \E x \in Scores : Dot(x.q, x.q) # Dot(x.v, x.v) /\ x.score.m # 0

-----------------------------------------------------------------------------
(* The version whose getEmbedding(text) has no attempt parameter: a 429 is
   always followed by a wait of five seconds and a recursive call. *)

\* `setTimeout(resolve, 5000)`, in seconds.
retryDelay == 5

\* The catch block: a 429 waits and retries, any other error is rethrown.
UncappedOnProviderError(c, status) ==
    IF status = 429
    THEN [c EXCEPT !.pc = "wait", !.waits = Append(@, retryDelay)]
    ELSE [c EXCEPT !.pc = "threw", !.err = status]

\* embedDocuments([text]) rejected with HTTP 429.
UncappedRateLimit(r, i) ==
    /\ i \in 1..Len(call[r]) /\ call[r][i].pc = "await"
    /\ rateLeft > 0
    /\ rateLeft' = rateLeft - 1
    /\ call' = [call EXCEPT ![r][i] = UncappedOnProviderError(Answered(@, 429), 429)]
    /\ req' = [req EXCEPT ![r] = AfterCalls(@, call'[r])]
    /\ UNCHANGED <<exposeGc, embeddingCache, store, providerCalls>>

UncappedGetEmbeddingStep ==
    \E r \in Reqs : \E i \in 1..Len(call[r]) :
        \/ \E v \in AllVecs : ProviderOk(r, i, v)
        \/ UncappedRateLimit(r, i)
        \/ ProviderError(r, i)
        \/ RetryTimer(r, i)

UncappedInputs(r) ==
    IF r = 1
    THEN { UploadInput(<<FileAB>>), UploadInput(<<>>) }
    ELSE { ChatInput("a"), UploadInput(<<FileB>>) }

InitUncapped ==
    /\ InitCommon
    /\ req \in {f \in [Reqs -> {NewRequest(x) : x \in UncappedInputs(1) \cup UncappedInputs(2)}] :
                  \A r \in Reqs : \E x \in UncappedInputs(r) : f[r] = NewRequest(x)}
    /\ rateLeft = MaxRateLimited

NextUncapped ==
    \/ \E r \in Reqs : CachedUploadBegin(r)
    \/ \E r \in Reqs : CachedExtractOk(r)
    \/ \E r \in Reqs : CachedExtractFail(r)
    \/ \E r \in Reqs : CachedSplit(r)
    \/ \E r \in Reqs : CachedSaveOk(r)
    \/ \E r \in Reqs : CachedSaveFail(r)
    \/ \E r \in Reqs : CachedChatBegin(r)
    \/ \E r \in Reqs : ChatFind(r)
    \/ \E r \in Reqs : ChatFindFail(r)
    \/ \E r \in Reqs : ChatLlmOk(r)
    \/ \E r \in Reqs : ChatLlmFail(r)
    \/ UncappedGetEmbeddingStep

SpecUncapped == InitUncapped /\ [][NextUncapped]_vars

\* C24: the chain of getEmbedding self-calls is bounded by the maximum
\* attempt count: an invocation the provider has answered that many times
\* has completed (returned or thrown), and none is entered beyond it.
C24_RetryChainEnds ==
    \A x \in Invocations :
        LET c == call[x[1]][x[2]]
        IN  /\ c.attempt <= MaxAttempts
            /\ Len(c.answers) >= MaxAttempts => c.pc \in {"returned", "threw"}

-----------------------------------------------------------------------------
(* Properties of the cache under concurrent calls *)

\* Invocation x got the provider's vector in this step.
Succeeds(x) ==
    /\ x[2] <= Len(call[x[1]]) /\ call[x[1]][x[2]].pc = "await"
    /\ x[2] <= Len(call'[x[1]]) /\ call'[x[1]][x[2]].pc = "returned"

\* C25: whatever the interleaving of getEmbedding calls, after every step
\* each cached text maps to a vector the provider returned for that text; a
\* key changes only when a call for that very text succeeds, to that call's
\* vector, and a text whose call succeeded is cached.
C25_CacheMapsTextToItsVector ==
    [][\A t \in Texts :
          /\ embeddingCache'[t] # Undefined => embeddingCache'[t] \in ProviderVecs(t)
          /\ embeddingCache'[t] # embeddingCache[t]
             => \E x \in Invocations :
                   /\ Succeeds(x)
                   /\ call[x[1]][x[2]].text = t
                   /\ call'[x[1]][x[2]].result = embeddingCache'[t]
          /\ \A x \in Invocations :
                (Succeeds(x) /\ call[x[1]][x[2]].text = t)
                => embeddingCache'[t] # Undefined]_vars

\* Two calls for one text both reached the provider and got different
\* vectors; another text is cached as well.
C25_Witness ==
    /\ \E x, y \in Invocations :
          LET c == call[x[1]][x[2]]
              d == call[y[1]][y[2]]
          IN  /\ c.pc = "returned" /\ d.pc = "returned"
              /\ c.made > 0 /\ d.made > 0
              /\ c.text = d.text /\ c.result # d.result
              /\ embeddingCache[c.text] \in {c.result, d.result}
    /\ \E t, u \in Texts :
          t # u /\ embeddingCache[t] # Undefined /\ embeddingCache[u] # Undefined

-----------------------------------------------------------------------------
(* Properties of the order of ingestion *)

\* Request r has a batch of a document at the provider or at the store.
Ingesting(r) == req[r].kind = "upload" /\ req[r].pc \in {"embedBatch", "insert"}

\* C26 as stated: at no moment are two documents being embedded or stored,
\* whether they belong to one request or to two.
C26_OneDocumentAtATime ==
    Cardinality({r \in Reqs : Ingesting(r)}) <= 1

\* C26 as amended: within one request the documents are handled one at a
\* time and in order: the batch in flight is a batch of the current file,
\* every supported file before it is stored completely and no chunk of a
\* file after it is stored.
C26_OneDocumentAtATimePerRequest ==
    \A r \in Reqs :
        (req[r].kind = "upload" /\ req[r].fi >= 1) =>
        /\ \A f \in 1..(req[r].fi - 1) :
              req[r].files[f].ext \in Supported
              => \A k \in 1..Len(req[r].files[f].chunks) : Stored(r, f, k)
        /\ \A f \in (req[r].fi + 1)..Len(req[r].files) :
              \A k \in 1..Len(req[r].files[f].chunks) : ~Stored(r, f, k)
        /\ Ingesting(r) =>
              /\ req[r].files[req[r].fi].ext \in Supported
              /\ req[r].batch = batchChunks(req[r].files[req[r].fi].chunks, req[r].i)

\* Two requests are ingesting at once, one of them at its second file.
C26_Witness ==
    /\ \A r \in Reqs : Ingesting(r)
    /\ \E r \in Reqs : req[r].fi = 2 /\ Stored(r, 1, 1)

-----------------------------------------------------------------------------
(* Properties of what getEmbedding returns *)

\* C27: whatever the text, a value getEmbedding returned is a vector the
\* provider produced for that text, and a value it returned without asking
\* the provider is one a successful call stored in the cache.
C27_ReturnsProviderVector ==
    \A x \in Invocations :
        LET c == call[x[1]][x[2]]
        IN  c.pc = "returned"
            => /\ c.result \in ProviderVecs(c.text)
               /\ c.made = 0 => embeddingCache[c.text] # Undefined

-----------------------------------------------------------------------------
(* Properties of a request that has been answered *)

\* C28: once /upload has sent its response, no getEmbedding call started for
\* it is still waiting for the provider or for a retry timer.
C28_NoWorkAfterResponse ==
    \A r \in Reqs :
        (req[r].kind = "upload" /\ req[r].pc = "done")
        => \A i \in 1..Len(call[r]) : call[r][i].pc \in {"returned", "threw"}

\* C29: when /upload responds, every temporary file the upload middleware
\* wrote for the request has been deleted.
C29_TemporaryFilesDeleted ==
    \A r \in Reqs :
        (req[r].kind = "upload" /\ req[r].pc = "done") => req[r].tmp = {}

-----------------------------------------------------------------------------
(* Properties of the success response of /upload *)

\* The records stored for chunk k of file f of request r.
RecordsOf(r, f, k) == {n \in 1..Len(store) : store[n].id = <<r, f, k>>}

\* C30: when /upload has answered with the success response, the response
\* lists the files of the request, and for every chunk it lists the store
\* holds exactly one record made for it by this request, with the file's
\* name, the chunk's text and a vector; at all times a chunk of a request has
\* at most one record.
C30_ReportedChunksPersistedOnce ==
    \A r \in Reqs :
        req[r].kind = "upload" =>
        /\ \A f \in 1..Len(req[r].files) :
              \A k \in 1..Len(req[r].files[f].chunks) :
                 Cardinality(RecordsOf(r, f, k)) <= 1
        /\ (req[r].pc = "done" /\ req[r].resp.status = 200) =>
              \A f \in 1..Len(req[r].resp.files) :
                 /\ req[r].resp.files[f].fileName = req[r].files[f].name
                 /\ \A k \in 1..Len(req[r].resp.files[f].chunks) :
                       /\ Cardinality(RecordsOf(r, f, k)) = 1
                       /\ \A n \in RecordsOf(r, f, k) :
                             /\ store[n].fileName = req[r].resp.files[f].fileName
                             /\ store[n].chunk = req[r].resp.files[f].chunks[k]
                             /\ IsVector(store[n].embedding)

\* A success response listing a file of more chunks than one batch holds.
C30_Witness ==
    \E r \in Reqs :
        /\ req[r].kind = "upload" /\ req[r].pc = "done" /\ req[r].resp.status = 200
        /\ \E f \in 1..Len(req[r].resp.files) :
              Len(req[r].resp.files[f].chunks) > 2 * batchSize

-----------------------------------------------------------------------------
(* Properties of the runs in which no collaborator fails *)

\* What a handler's catch block was reached for when a collaborator failed:
\* the extraction, the provider (429 or another error), the store, the model.
CollaboratorCauses == {"extract", "rate", "provider", "store", "llm"}

\* C31: a handler reaches its failure response only after a collaborator
\* failed; a request answered without such a failure got one response, which
\* is not the failure response, and an upload answered with success lists
\* every supported file of the request.
C31_FailureOnlyAfterCollaboratorFailure ==
    \A r \in Reqs :
        req[r].pc = "done" =>
        \/ req[r].cause \in CollaboratorCauses
        \/ /\ req[r].cause = "none"
           /\ req[r].sends = 1
           /\ req[r].resp.status # 500
           /\ (req[r].kind = "upload" /\ req[r].resp.status = 200) =>
                 \A f \in 1..Len(req[r].files) :
                    req[r].files[f].ext \in Supported
                    => \E j \in 1..Len(req[r].resp.files) :
                          req[r].resp.files[j].fileName = req[r].files[f].name

====
